---- MODULE Spec2Model ----
(***************************************************************************)
(* Model of the study-assistant Worker (src/src/index.ts): the per-        *)
(* conversation Durable Object ConversationDO (GET /history, POST /add,    *)
(* POST /clear over state.storage key 'messages') and the default fetch    *)
(* handler that routes /api/chat, /api/history and /api/clear to it and    *)
(* calls env.AI.run.  Every action is one run of handler code between two  *)
(* awaits.                                                                 *)
(***************************************************************************)
EXTENDS Integers, Sequences, FiniteSets, TLC

(* ------------------------------ bounds -------------------------------- *)
\* number of inbound requests of one run
NumReqs == 2
\* number of requests in flight at the same time
MaxInFlight == 2
\* number of store / gateway calls of one run that may fail
MaxFaults == 1

\* number of messages the chat page sends in one run
MaxSends == 2
\* number of clear requests of the chat page pending at the same time
MaxClears == 1

Reqs == 1..NumReqs
NoReq == 0

(* --------------------------- value domains ---------------------------- *)
\* JavaScript undefined / null (a missing JSON key, a missing search param)
Undefined == "undefined"
\* contents of request fields
Texts == {"m1", "m2"}
MessageInputs == Texts \cup {Undefined, ""}
ConversationIdInputs == {Undefined, "", "c1"}
\* url.searchParams.get('id') of GET /api/history
HistoryIdInputs == ConversationIdInputs \cup {"default"}
\* texts the model may generate
Replies == {"r1", "r2"}
\* names of Durable Object instances reachable through idFromName
Names == {"default", "c1"}
\* error.message of what a failing call throws
ErrorMessages == {"", "timeout"}
Methods == {"OPTIONS", "GET", "POST"}
Paths == {"/api/chat", "/api/history", "/api/clear", "/"}

SystemPrompt == "You are a helpful study assistant for students. Provide clear, concise explanations for homework questions, academic concepts, and study topics. Be encouraging and educational."
FallbackError == "Failed to process request"

Msg(role, content) == [role |-> role, content |-> content]

\* the request as the handler reads it: method, path, whether the body
\* parses as JSON, and the fields message / conversationId (for GET the
\* search parameter id)
NoRequest ==
  [method |-> "GET", path |-> "/", bodyOk |-> TRUE,
   message |-> Undefined, conversationId |-> Undefined]

\* (method, path) pairs no route matches
Unrouted ==
  {mp \in {"GET", "POST"} \X Paths :
     /\ ~(mp[1] = "POST" /\ mp[2] \in {"/api/chat", "/api/clear"})
     /\ ~(mp[1] = "GET" /\ mp[2] = "/api/history")}

\* every shape of request the dispatch distinguishes
Requests ==
  {[method |-> "OPTIONS", path |-> p, bodyOk |-> TRUE,
    message |-> Undefined, conversationId |-> Undefined] : p \in Paths}
  \cup
  {[method |-> "POST", path |-> "/api/chat", bodyOk |-> TRUE,
    message |-> t, conversationId |-> c] :
      t \in MessageInputs, c \in ConversationIdInputs}
  \cup
  {[method |-> "POST", path |-> p, bodyOk |-> FALSE,
    message |-> Undefined, conversationId |-> Undefined] :
      p \in {"/api/chat", "/api/clear"}}
  \cup
  {[method |-> "GET", path |-> "/api/history", bodyOk |-> TRUE,
    message |-> Undefined, conversationId |-> c] : c \in HistoryIdInputs}
  \cup
  {[method |-> "POST", path |-> "/api/clear", bodyOk |-> TRUE,
    message |-> Undefined, conversationId |-> c] : c \in ConversationIdInputs}
  \cup
  {[method |-> mp[1], path |-> mp[2], bodyOk |-> TRUE,
    message |-> Undefined, conversationId |-> Undefined] : mp \in Unrouted}

\* Chat requests: a body that does not parse, or a message for either
\* conversation
ChatRequests ==
  {q \in Requests :
     /\ q.method = "POST" /\ q.path = "/api/chat"
     /\ q.bodyOk => (q.message = "m1" /\ q.conversationId \in {Undefined, "c1"})}

\* the requests of the concurrent runs: those that reach the store, with a
\* body that parses and a message text
ConcurrentRequests ==
  {q \in Requests :
     /\ q.bodyOk
     /\ q.conversationId \in {Undefined, "c1"}
     /\ q.path = "/api/chat" /\ q.method = "POST" => q.message \in Texts
     /\ q.method # "OPTIONS"
     /\ <<q.method, q.path>> \notin Unrouted}

(* ------------------------------ state --------------------------------- *)
VARIABLES
  storage,      \* per object: state.storage entry 'messages'
  doMessages,   \* per object: this.messages
  gate,         \* per object: the request whose storage call holds the input gate
  req,          \* per request: the inbound Request
  pc,           \* per request: the await the handler is suspended at
  messages,     \* per request: const { messages } of the chat handler
  aiMessages,   \* per request: const aiMessages
  aiReply,      \* per request: const aiReply
  putValue,     \* per request: the array the /add handler read and pushed to
  response,     \* per request: the Response the handler returned
  error,        \* per request: the call that threw in this request
  faults,       \* number of failed store / gateway calls so far
  appended,     \* per object: messages of the /add calls that returned, since the last /clear
  lastOp,       \* per object: the last handler of the object that returned
  uiMessages,   \* chat page: useState messages
  uiInput,      \* chat page: useState input
  uiLoading,    \* chat page: useState loading
  uiPending,    \* chat page: number of /api/chat fetches not yet settled
  uiSent,       \* chat page: number of /api/chat fetches sent so far
  uiHistory,    \* chat page: the /api/history fetch of the mount effect
  uiClearing    \* chat page: number of /api/clear fetches not yet settled

\* the state of the Worker and its Durable Objects
backendVars == <<storage, doMessages, gate, req, pc, messages, aiMessages,
                 aiReply, putValue, response, error, faults, appended, lastOp>>

\* the state of the chat page (src/app/page.tsx)
uiVars == <<uiMessages, uiInput, uiLoading, uiPending, uiSent, uiHistory,
            uiClearing>>

vars == <<storage, doMessages, gate, req, pc, messages, aiMessages, aiReply,
          putValue, response, error, faults, appended, lastOp, uiVars>>

(* ---------------------------- pure helpers ---------------------------- *)
\* state.storage entry: absent (get returns undefined) or a stored array
Absent == [present |-> FALSE, value |-> <<>>]

\* (mutation of Stored: only the last message of the array is put)
Stored_LastOnly(seq) ==
  [present |-> TRUE,
   value |-> IF seq = <<>> THEN <<>> ELSE <<seq[Len(seq)]>>]

\* await this.state.storage.put('messages', this.messages)
Stored(seq) == [present |-> TRUE, value |-> seq]

\* (mutation of Delete: the entry is left in storage)
Delete_Kept(entry) == entry

\* await this.state.storage.delete('messages')
Delete(entry) == Absent

\* (await this.state.storage.get('messages')) || []
OrEmpty(entry) == IF entry.present THEN entry.value ELSE <<>>

\* (mutation of ResolveId: conversationId ?? 'default', which lets the
\* empty string through)
ResolveId_Nullish(conversationId) ==
  IF conversationId = Undefined THEN "default" ELSE conversationId

\* conversationId || 'default'
ResolveId(conversationId) ==
  IF conversationId = Undefined \/ conversationId = ""
  THEN "default" ELSE conversationId

\* (mutation of ConvOf: every request is sent to the object named default)
ConvOf_OneObject(r) == "default"

\* const id = env.CONVERSATIONS.idFromName(...); const stub = ...get(id)
ConvOf(r) == ResolveId(req[r].conversationId)

\* (mutation of BuildPrompt: the system message is left out)
BuildPrompt_NoSystem(history, message) == history \o <<Msg("user", message)>>

\* const aiMessages = [ {system}, ...messages, {user, message} ]
BuildPrompt(history, message) ==
  <<Msg("system", SystemPrompt)>> \o history \o <<Msg("user", message)>>

\* error.message || 'Failed to process request'
ErrorText(message) == IF message = "" THEN FallbackError ELSE message

NoResponse ==
  [status |-> 0, type |-> "none", response |-> Undefined,
   conversationId |-> Undefined, messages |-> <<>>, error |-> Undefined]

\* new Response(JSON.stringify({ response, conversationId }), 200)
ReplyResponse(reply, conversationId) ==
  [NoResponse EXCEPT !.status = 200, !.type = "reply", !.response = reply,
                     !.conversationId = ResolveId(conversationId)]

\* (mutation of ErrorResponse: the status option is left out)
ErrorResponse_Status200(message) ==
  [NoResponse EXCEPT !.status = 200, !.type = "error",
                     !.error = ErrorText(message)]

\* new Response(JSON.stringify({ error }), { status: 500 })
ErrorResponse(message) ==
  [NoResponse EXCEPT !.status = 500, !.type = "error",
                     !.error = ErrorText(message)]

\* new Response(JSON.stringify(data)) of /api/history
HistoryResponse(msgs) ==
  [NoResponse EXCEPT !.status = 200, !.type = "messages", !.messages = msgs]

\* new Response(JSON.stringify({ success: true })) of /api/clear
SuccessResponse == [NoResponse EXCEPT !.status = 200, !.type = "success"]

\* new Response(null, { headers: corsHeaders })
CorsResponse == [NoResponse EXCEPT !.status = 200, !.type = "cors"]

\* new Response('AI Study Assistant API - Use POST /api/chat')
BannerResponse == [NoResponse EXCEPT !.status = 200, !.type = "banner"]

\* the handler's promise rejects: no Response is built by the Worker
Uncaught == [NoResponse EXCEPT !.type = "uncaught"]

\* the invocation was cancelled before it returned a Response
Cancelled == [NoResponse EXCEPT !.type = "cancelled"]

\* (mutation of ReadAll: GET /history answers from the in-memory
\* this.messages without reading storage)
ReadAll_InMemory(name) == doMessages[name]

\* (mutation of ReadAll: storage is read only while this.messages is empty)
ReadAll_Cached(name) ==
  IF doMessages[name] # <<>> THEN doMessages[name] ELSE OrEmpty(storage[name])

\* GET /history: this.messages = (await storage.get('messages')) || []
ReadAll(name) == OrEmpty(storage[name])

\* Durable Object input gate: no other event is delivered to the object
\* while one of its storage calls is awaited
InputGateOpen(name) == gate[name] = NoReq

(* ------------------------------- Init --------------------------------- *)
\* What an earlier run left in durable storage: conversation "default" holds
\* one completed exchange, conversation "c1" was never written.  The objects
\* are freshly constructed (this.messages = []).
InitialStorage ==
  [n \in Names |->
     IF n = "default"
     THEN Stored(<<Msg("user", "m0"), Msg("assistant", "r0")>>)
     ELSE Absent]

Init ==
  /\ storage = InitialStorage
  /\ doMessages = [n \in Names |-> <<>>]
  /\ gate = [n \in Names |-> NoReq]
  /\ req = [r \in Reqs |-> NoRequest]
  /\ pc = [r \in Reqs |-> "idle"]
  /\ messages = [r \in Reqs |-> <<>>]
  /\ aiMessages = [r \in Reqs |-> <<>>]
  /\ aiReply = [r \in Reqs |-> Undefined]
  /\ putValue = [r \in Reqs |-> <<>>]
  /\ response = [r \in Reqs |-> NoResponse]
  /\ error = [r \in Reqs |-> "none"]
  /\ faults = 0
  /\ appended = [n \in Names |-> OrEmpty(InitialStorage[n])]
  /\ lastOp = [n \in Names |-> "none"]
  /\ uiMessages = <<>>
  /\ uiInput = <<>>
  /\ uiLoading = FALSE
  /\ uiPending = 0
  /\ uiSent = 0
  /\ uiHistory = "pending"
  /\ uiClearing = 0

(* --------------------- default fetch: dispatch ------------------------ *)
\* request.method === 'POST' && url.pathname === '/api/chat'
IsChatRoute(q) == q.method = "POST" /\ q.path = "/api/chat"

\* (mutation of Route: the routes are matched on the path alone and the
\* OPTIONS test comes last)
Route_PreflightLast(q) ==
  IF q.path = "/api/chat" THEN "chat"
  ELSE IF q.path = "/api/history" THEN "history"
  ELSE IF q.path = "/api/clear" THEN "clear"
  ELSE IF q.method = "OPTIONS" THEN "preflight"
  ELSE "fallback"

\* the chain of if statements of the handler: the first test that holds
Route(q) ==
  IF q.method = "OPTIONS" THEN "preflight"
  ELSE IF q.method = "POST" /\ q.path = "/api/chat" THEN "chat"
  ELSE IF q.method = "GET" /\ q.path = "/api/history" THEN "history"
  ELSE IF q.method = "POST" /\ q.path = "/api/clear" THEN "clear"
  ELSE "fallback"

\* a request arrives; the handler runs to its first await
\* (requests are numbered in arrival order)
Dispatch(r, q) ==
  /\ pc[r] = "idle"
  /\ r > 1 => pc[r - 1] # "idle"
  /\ req' = [req EXCEPT ![r] = q]
  /\ IF Route(q) = "preflight"
       THEN /\ response' = [response EXCEPT ![r] = CorsResponse]
            /\ pc' = [pc EXCEPT ![r] = "done"]
     ELSE IF Route(q) = "chat"
       THEN /\ pc' = [pc EXCEPT ![r] = "chat_json"]
            /\ UNCHANGED response
     ELSE IF Route(q) = "history"
       THEN /\ pc' = [pc EXCEPT ![r] = "history_get"]
            /\ UNCHANGED response
     ELSE IF Route(q) = "clear"
       THEN /\ pc' = [pc EXCEPT ![r] = "clear_json"]
            /\ UNCHANGED response
     ELSE /\ response' = [response EXCEPT ![r] = BannerResponse]
          /\ pc' = [pc EXCEPT ![r] = "done"]
  /\ UNCHANGED <<storage, doMessages, gate, messages, aiMessages, aiReply,
                 putValue, error, faults, appended, lastOp>>
  /\ UNCHANGED uiVars

InFlight == {o \in Reqs : pc[o] \notin {"idle", "done"}}

Start(r) ==
  /\ Cardinality(InFlight) < MaxInFlight
  /\ \E q \in ConcurrentRequests : Dispatch(r, q)

\* requests arrive one at a time: none is in flight when the next arrives
StartSeq(r) ==
  /\ \A o \in Reqs : pc[o] \in {"idle", "done"}
  /\ \E q \in Requests : Dispatch(r, q)

\* one at a time, the requests that reach the store
StartOne(r) ==
  /\ \A o \in Reqs : pc[o] \in {"idle", "done"}
  /\ \E q \in ConcurrentRequests : Dispatch(r, q)

(* ------------------------ POST /api/chat ------------------------------ *)
\* catch (error): 500 with { error: error.message || 'Failed ...' }
ChatCatch(r, kind, em) ==
  /\ response' = [response EXCEPT ![r] = ErrorResponse(em)]
  /\ error' = [error EXCEPT ![r] = kind]
  /\ pc' = [pc EXCEPT ![r] = "done"]

\* const { message, conversationId } = await request.json(); the stub is
\* resolved and GET /history is sent
ChatJson(r) ==
  /\ pc[r] = "chat_json"
  /\ IF req[r].bodyOk
       THEN /\ pc' = [pc EXCEPT ![r] = "chat_history"]
            /\ UNCHANGED <<response, error>>
       ELSE \E em \in ErrorMessages : ChatCatch(r, "body", em)
  /\ UNCHANGED <<storage, doMessages, gate, req, messages, aiMessages,
                 aiReply, putValue, faults, appended, lastOp>>
  /\ UNCHANGED uiVars

\* ConversationDO GET /history, then const { messages } = await json()
\* and POST /add of the user turn is sent
ChatHistory(r) ==
  /\ pc[r] = "chat_history"
  /\ InputGateOpen(ConvOf(r))
  /\ \/ /\ doMessages' = [doMessages EXCEPT ![ConvOf(r)] = ReadAll(ConvOf(r))]
        /\ messages' = [messages EXCEPT ![r] = ReadAll(ConvOf(r))]
        /\ lastOp' = [lastOp EXCEPT ![ConvOf(r)] = "history"]
        /\ pc' = [pc EXCEPT ![r] = "add_user_get"]
        /\ UNCHANGED <<response, error, faults>>
     \/ /\ faults < MaxFaults
        /\ faults' = faults + 1
        /\ \E em \in ErrorMessages : ChatCatch(r, "store", em)
        /\ UNCHANGED <<doMessages, messages, lastOp>>
  /\ UNCHANGED <<storage, gate, req, aiMessages, aiReply, putValue, appended>>
  /\ UNCHANGED uiVars

\* (mutation of AddBody: the reply is saved with role 'user')
AddBody_AlwaysUser(r) ==
  IF pc[r] \in {"add_user_get", "add_user_push", "add_user_put"}
  THEN Msg("user", req[r].message)
  ELSE Msg("user", aiReply[r])

\* what the pending POST /add of request r carries: the user turn before
\* env.AI.run, the assistant turn after it
AddBody(r) ==
  IF pc[r] \in {"add_user_get", "add_user_push", "add_user_put"}
  THEN Msg("user", req[r].message)
  ELSE Msg("assistant", aiReply[r])

\* (mutation of CurrentSequence: the handler trusts the in-memory
\* this.messages instead of reading storage)
CurrentSequence_InMemory(name) == doMessages[name]

\* the sequence POST /add reads before it pushes:
\* (await this.state.storage.get('messages')) || []
CurrentSequence(name) == OrEmpty(storage[name])

\* ConversationDO POST /add: storage.get('messages') is issued
AddGet(r) ==
  /\ pc[r] \in {"add_user_get", "add_asst_get"}
  /\ InputGateOpen(ConvOf(r))
  /\ \/ /\ putValue' = [putValue EXCEPT ![r] = CurrentSequence(ConvOf(r))]
        /\ gate' = [gate EXCEPT ![ConvOf(r)] = r]
        /\ pc' = [pc EXCEPT ![r] =
                    IF pc[r] = "add_user_get" THEN "add_user_push" ELSE "add_asst_push"]
        /\ UNCHANGED <<response, error, faults>>
     \/ /\ faults < MaxFaults
        /\ faults' = faults + 1
        /\ \E em \in ErrorMessages : ChatCatch(r, "store", em)
        /\ UNCHANGED <<putValue, gate>>
  /\ UNCHANGED <<storage, doMessages, req, messages, aiMessages, aiReply,
                 appended, lastOp>>
  /\ UNCHANGED uiVars

\* (mutation of Push: unshift instead of push)
Push_Prepend(seq, m) == <<m>> \o seq

\* this.messages.push({ role, content })
Push(seq, m) == Append(seq, m)

\* ConversationDO POST /add: the get resolves, this.messages is assigned and
\* pushed to, storage.put('messages', this.messages) is issued
AddPush(r) ==
  /\ pc[r] \in {"add_user_push", "add_asst_push"}
  /\ putValue' = [putValue EXCEPT ![r] = Push(putValue[r], AddBody(r))]
  /\ doMessages' = [doMessages EXCEPT ![ConvOf(r)] = Push(putValue[r], AddBody(r))]
  /\ pc' = [pc EXCEPT ![r] =
              IF pc[r] = "add_user_push" THEN "add_user_put" ELSE "add_asst_put"]
  /\ UNCHANGED <<storage, gate, req, messages, aiMessages, aiReply, response,
                 error, faults, appended, lastOp>>
  /\ UNCHANGED uiVars

\* ConversationDO POST /add: the put resolves and { success: true } is
\* returned; the chat handler resumes: after the user turn it builds
\* aiMessages and calls env.AI.run, after the assistant turn it responds
AddPut(r) ==
  /\ pc[r] \in {"add_user_put", "add_asst_put"}
  /\ gate' = [gate EXCEPT ![ConvOf(r)] =
                IF gate[ConvOf(r)] = r THEN NoReq ELSE gate[ConvOf(r)]]
  /\ \/ /\ storage' = [storage EXCEPT ![ConvOf(r)] = Stored(putValue[r])]
        /\ appended' = [appended EXCEPT ![ConvOf(r)] = Append(@, AddBody(r))]
        /\ lastOp' = [lastOp EXCEPT ![ConvOf(r)] = "add"]
        /\ IF pc[r] = "add_user_put"
             THEN /\ aiMessages' = [aiMessages EXCEPT ![r] =
                                      BuildPrompt(messages[r], req[r].message)]
                  /\ pc' = [pc EXCEPT ![r] = "ai_run"]
                  /\ UNCHANGED response
             ELSE /\ response' = [response EXCEPT ![r] =
                                    ReplyResponse(aiReply[r], req[r].conversationId)]
                  /\ pc' = [pc EXCEPT ![r] = "done"]
                  /\ UNCHANGED aiMessages
        /\ UNCHANGED <<error, faults>>
     \/ /\ faults < MaxFaults
        /\ faults' = faults + 1
        /\ \E em \in ErrorMessages : ChatCatch(r, "store", em)
        /\ UNCHANGED <<storage, appended, lastOp, aiMessages>>
  /\ UNCHANGED <<doMessages, req, messages, aiReply, putValue>>
  /\ UNCHANGED uiVars

\* await env.AI.run(model, { messages: aiMessages, ... }) settles:
\* const aiReply = response.response, and POST /add of the assistant turn
\* is sent.  The model is opaque: it returns a text, returns an object
\* without a response text, or throws.
AiRun(r) ==
  /\ pc[r] = "ai_run"
  /\ \/ /\ \E t \in Replies : aiReply' = [aiReply EXCEPT ![r] = t]
        /\ pc' = [pc EXCEPT ![r] = "add_asst_get"]
        /\ UNCHANGED <<response, error, faults>>
     \/ /\ faults < MaxFaults
        /\ faults' = faults + 1
        /\ aiReply' = [aiReply EXCEPT ![r] = Undefined]
        /\ pc' = [pc EXCEPT ![r] = "add_asst_get"]
        /\ UNCHANGED <<response, error>>
     \/ /\ faults < MaxFaults
        /\ faults' = faults + 1
        /\ \E em \in ErrorMessages : ChatCatch(r, "gateway", em)
        /\ UNCHANGED aiReply
  /\ UNCHANGED <<storage, doMessages, gate, req, messages, aiMessages,
                 putValue, appended, lastOp>>
  /\ UNCHANGED uiVars

(* ------------------------ GET /api/history ---------------------------- *)
\* an exception no try/catch handles: the handler's promise rejects
Throw(r, kind) ==
  /\ response' = [response EXCEPT ![r] = Uncaught]
  /\ error' = [error EXCEPT ![r] = kind]
  /\ pc' = [pc EXCEPT ![r] = "done"]

\* ConversationDO GET /history, then the data is returned as it came
HistoryGet(r) ==
  /\ pc[r] = "history_get"
  /\ InputGateOpen(ConvOf(r))
  /\ \/ /\ doMessages' = [doMessages EXCEPT ![ConvOf(r)] = ReadAll(ConvOf(r))]
        /\ lastOp' = [lastOp EXCEPT ![ConvOf(r)] = "history"]
        /\ response' = [response EXCEPT ![r] =
                          HistoryResponse(ReadAll(ConvOf(r)))]
        /\ pc' = [pc EXCEPT ![r] = "done"]
        /\ UNCHANGED <<error, faults>>
     \/ /\ faults < MaxFaults
        /\ faults' = faults + 1
        /\ Throw(r, "store")
        /\ UNCHANGED <<doMessages, lastOp>>
  /\ UNCHANGED <<storage, gate, req, messages, aiMessages, aiReply, putValue,
                 appended>>
  /\ UNCHANGED uiVars

(* ------------------------- POST /api/clear ---------------------------- *)
\* const { conversationId } = await request.json(); POST /clear is sent
ClearJson(r) ==
  /\ pc[r] = "clear_json"
  /\ IF req[r].bodyOk
       THEN /\ pc' = [pc EXCEPT ![r] = "clear_delete"]
            /\ UNCHANGED <<response, error>>
       ELSE Throw(r, "body")
  /\ UNCHANGED <<storage, doMessages, gate, req, messages, aiMessages,
                 aiReply, putValue, faults, appended, lastOp>>
  /\ UNCHANGED uiVars

\* ConversationDO POST /clear: storage.delete('messages'), this.messages = []
ClearDelete(r) ==
  /\ pc[r] = "clear_delete"
  /\ InputGateOpen(ConvOf(r))
  /\ \/ /\ storage' = [storage EXCEPT ![ConvOf(r)] = Delete(@)]
        /\ doMessages' = [doMessages EXCEPT ![ConvOf(r)] = <<>>]
        /\ appended' = [appended EXCEPT ![ConvOf(r)] = <<>>]
        /\ lastOp' = [lastOp EXCEPT ![ConvOf(r)] = "clear"]
        /\ response' = [response EXCEPT ![r] = SuccessResponse]
        /\ pc' = [pc EXCEPT ![r] = "done"]
        /\ UNCHANGED <<error, faults>>
     \/ /\ faults < MaxFaults
        /\ faults' = faults + 1
        /\ Throw(r, "store")
        /\ UNCHANGED <<storage, doMessages, appended, lastOp>>
  /\ UNCHANGED <<gate, req, messages, aiMessages, aiReply, putValue>>
  /\ UNCHANGED uiVars

(* ------------------- cancellation and restart ------------------------- *)
\* The caller or the platform cancels a Chat invocation while it is
\* suspended at one of its awaits (request.json, a stub.fetch that the
\* object has not begun to serve, env.AI.run): nothing after that await runs.
Cancel(r) ==
  /\ IsChatRoute(req[r])
  /\ pc[r] \in {"chat_json", "chat_history", "add_user_get", "ai_run",
                "add_asst_get"}
  /\ faults < MaxFaults
  /\ faults' = faults + 1
  /\ pc' = [pc EXCEPT ![r] = "done"]
  /\ error' = [error EXCEPT ![r] = "cancel"]
  /\ response' = [response EXCEPT ![r] = Cancelled]
  /\ UNCHANGED <<storage, doMessages, gate, req, messages, aiMessages,
                 aiReply, putValue, appended, lastOp>>
  /\ UNCHANGED uiVars

\* An idle object is evicted and constructed again: this.messages = [],
\* state.storage is kept.
Restart(n) ==
  /\ \A r \in Reqs : pc[r] \in {"idle", "done"}
  /\ lastOp[n] # "restart"
  /\ doMessages' = [doMessages EXCEPT ![n] = <<>>]
  /\ lastOp' = [lastOp EXCEPT ![n] = "restart"]
  /\ UNCHANGED <<storage, gate, req, pc, messages, aiMessages, aiReply,
                 putValue, response, error, faults, appended>>
  /\ UNCHANGED uiVars

(* ------------------------- chat page (UI) ----------------------------- *)
\* what the user can have typed: sequences of characters
UiInputs == {<<>>, <<" ">>, <<" ", "a", " ">>, <<"b">>}

\* a text the page receives or shows as a whole
UiText(t) == <<t>>

\* data.response of the /api/chat answer: the reply, or undefined when the
\* Worker answered with an error envelope
UiResponses == {UiText("r1"), UiText(Undefined)}

\* data.messages of the /api/history answer
UiHistories ==
  {<<>>, <<Msg("user", UiText("m0")), Msg("assistant", UiText("r0"))>>}

UiErrorText == UiText("Sorry, I encountered an error. Please try again.")

\* String.prototype.trim
RECURSIVE TrimStart(_)
TrimStart(t) ==
  IF t # <<>> /\ Head(t) = " " THEN TrimStart(Tail(t)) ELSE t

RECURSIVE TrimEnd(_)
TrimEnd(t) ==
  IF t # <<>> /\ t[Len(t)] = " " THEN TrimEnd(SubSeq(t, 1, Len(t) - 1)) ELSE t

Trim(t) == TrimEnd(TrimStart(t))

\* if (!input.trim() || loading) return;
SendBlocked(input, loading) == Trim(input) = <<>> \/ loading

\* (mutation of LoadingAfterSettle: setLoading(false) is the last statement
\* of the try block instead of the finally block)
LoadingAfterSettle_TryOnly(ok, loading) == IF ok THEN FALSE ELSE loading

\* finally { setLoading(false); }
LoadingAfterSettle(ok, loading) == FALSE

\* onChange of the input field, which is disabled while loading
SetInput(v) ==
  /\ ~uiLoading
  /\ uiInput' = v
  /\ UNCHANGED <<uiMessages, uiLoading, uiPending, uiSent, uiHistory,
                 uiClearing>>
  /\ UNCHANGED backendVars

\* sendMessage, up to its await of fetch('/api/chat')
SendMessage ==
  /\ uiSent < MaxSends
  /\ IF SendBlocked(uiInput, uiLoading)
       THEN UNCHANGED <<uiInput, uiMessages, uiLoading, uiPending, uiSent>>
       ELSE /\ uiInput' = <<>>
            /\ uiMessages' = Append(uiMessages, Msg("user", Trim(uiInput)))
            /\ uiLoading' = TRUE
            /\ uiPending' = uiPending + 1
            /\ uiSent' = uiSent + 1
  /\ UNCHANGED <<uiHistory, uiClearing>>
  /\ UNCHANGED backendVars

\* sendMessage after the await: the answer is parsed and shown, or the
\* fetch or response.json() threw and the error text is shown; finally
\* loading is reset
ChatSettle ==
  /\ uiPending > 0
  /\ \/ /\ \E d \in UiResponses :
             uiMessages' = Append(uiMessages, Msg("assistant", d))
        /\ uiLoading' = LoadingAfterSettle(TRUE, uiLoading)
     \/ /\ uiMessages' = Append(uiMessages, Msg("assistant", UiErrorText))
        /\ uiLoading' = LoadingAfterSettle(FALSE, uiLoading)
  /\ uiPending' = uiPending - 1
  /\ UNCHANGED <<uiInput, uiSent, uiHistory, uiClearing>>
  /\ UNCHANGED backendVars

\* loadHistory of the mount effect settles: setMessages(data.messages || [])
\* or, in catch, only a console message
HistorySettle ==
  /\ uiHistory = "pending"
  /\ uiHistory' = "done"
  /\ \/ \E h \in UiHistories : uiMessages' = h
     \/ UNCHANGED uiMessages
  /\ UNCHANGED <<uiInput, uiLoading, uiPending, uiSent, uiClearing>>
  /\ UNCHANGED backendVars

\* clearChat, up to its await of fetch('/api/clear')
ClearChatStart ==
  /\ uiClearing < MaxClears
  /\ uiClearing' = uiClearing + 1
  /\ UNCHANGED <<uiMessages, uiInput, uiLoading, uiPending, uiSent, uiHistory>>
  /\ UNCHANGED backendVars

\* clearChat after the await: setMessages([]), or in catch only a console
\* message
ClearChatSettle ==
  /\ uiClearing > 0
  /\ uiClearing' = uiClearing - 1
  /\ \/ uiMessages' = <<>>
     \/ UNCHANGED uiMessages
  /\ UNCHANGED <<uiInput, uiLoading, uiPending, uiSent, uiHistory>>
  /\ UNCHANGED backendVars

UiNext ==
  \/ \E v \in UiInputs : SetInput(v)
  \/ SendMessage
  \/ ChatSettle
  \/ HistorySettle
  \/ ClearChatStart
  \/ ClearChatSettle

\* the chat page alone, against any behaviour of the Worker
UiSpec == Init /\ [][UiNext]_vars

(* --------------------------- specifications --------------------------- *)
Step(r) ==
  \/ ChatJson(r)
  \/ ChatHistory(r)
  \/ AddGet(r)
  \/ AddPush(r)
  \/ AddPut(r)
  \/ AiRun(r)
  \/ HistoryGet(r)
  \/ ClearJson(r)
  \/ ClearDelete(r)

\* requests are handled concurrently
Next == \E r \in Reqs : Start(r) \/ Step(r)

Spec == Init /\ [][Next]_vars

\* requests are handled one after the other
NextSeq == \E r \in Reqs : StartSeq(r) \/ Step(r)

SeqSpec == Init /\ [][NextSeq]_vars

\* Chat requests handled concurrently, where every continuation that can
\* run does run: each awaited store or gateway call settles (it returns or
\* throws) and the handler resumes
StartChat(r) ==
  /\ Cardinality(InFlight) < MaxInFlight
  /\ \E q \in ChatRequests : Dispatch(r, q)

ChatStep(r) ==
  \/ ChatJson(r)
  \/ ChatHistory(r)
  \/ AddGet(r)
  \/ AddPush(r)
  \/ AddPut(r)
  \/ AiRun(r)

NextLive == \E r \in Reqs : StartChat(r) \/ ChatStep(r)

LiveSpec ==
  Init /\ [][NextLive]_vars /\ \A r \in Reqs : WF_vars(ChatStep(r))

\* requests are handled one after the other; an invocation may be
\* cancelled and an idle object may be restarted
NextCrash ==
  \/ \E r \in Reqs : StartOne(r) \/ Step(r) \/ Cancel(r)
  \/ \E n \in Names : Restart(n)

CrashSpec == Init /\ [][NextCrash]_vars

TypeOK ==
  /\ \A n \in Names : storage[n].present \in BOOLEAN
  /\ \A r \in Reqs : req[r] \in Requests \cup {NoRequest}
  /\ faults \in 0..MaxFaults

(* ------------------------- vocabulary of the claims ------------------- *)
IsChat(q) == q.method = "POST" /\ q.path = "/api/chat"
IsGetHistory(q) == q.method = "GET" /\ q.path = "/api/history"
IsClearHistory(q) == q.method = "POST" /\ q.path = "/api/clear"

\* the log readAll(name) would return now
Log(name) == OrEmpty(storage[name])

\* request r has arrived and no request arrived after it
LastRequest(r) == pc[r] # "idle" /\ \A o \in Reqs : o > r => pc[o] = "idle"

\* the response is an error envelope with a non-success status
IsErrorEnvelope(resp) == resp.type = "error" /\ resp.status >= 400

\* the Chat request r is at or past its first POST /add
AppendIssued(r) ==
  pc[r] \in {"add_user_get", "add_user_push", "add_user_put", "ai_run",
             "add_asst_get", "add_asst_push", "add_asst_put"}

(* ------------------------------- C1 ----------------------------------- *)
\* C1: when the gateway call of a Chat request fails, Chat responds with an
\* error envelope and a non-success status, and the stored history of its
\* conversation has the same length as before the request (in a sequential
\* run: the length of the history the request read).
C1_GatewayFailureLeavesHistory ==
  \A r \in Reqs :
    (pc[r] = "done" /\ error[r] = "gateway" /\ LastRequest(r)) =>
      /\ IsErrorEnvelope(response[r])
      /\ Len(Log(ConvOf(r))) = Len(messages[r])

(* ------------------------------- C2 ----------------------------------- *)
\* C2: concurrent appends on one id are never lost: at every moment the log
\* of every id is exactly the messages of the appends that have returned
\* since the last clear, in the order they returned; so once append(id, a)
\* and append(id, b) have both returned the log is the prior log extended
\* by a and b in one of the two orders.
C2_NoLostAppend ==
  \A n \in Names : Log(n) = appended[n]

\* two Chat requests of one conversation both read the history before either
\* appended, and both user turns have been appended
C2_Witness ==
  \E r \in Reqs, o \in Reqs :
    /\ r # o
    /\ ConvOf(r) = ConvOf(o)
    /\ pc[r] = "ai_run" /\ pc[o] = "ai_run"
    /\ messages[r] = messages[o]
    /\ Len(Log(ConvOf(r))) = Len(messages[r]) + 2

(* ------------------------------- C3 ----------------------------------- *)
\* C3: two concurrent Chat requests on one id never interleave their append
\* pairs: in the log, the assistant turn a Chat request wrote immediately
\* follows the user turn that same request wrote.  (Requests are told apart
\* by their texts, so the statement is about requests whose message and
\* reply no other request shares, in runs without ClearHistory.)
C3_PairsNotInterleaved ==
  (\A o \in Reqs : ~IsClearHistory(req[o])) =>
    \A r \in Reqs :
      ( /\ IsChat(req[r])
        /\ aiReply[r] \in Replies
        /\ \A o \in Reqs \ {r} :
             req[o].message # req[r].message /\ aiReply[o] # aiReply[r] ) =>
        \A i \in 1..Len(Log(ConvOf(r))) :
          Log(ConvOf(r))[i] = Msg("assistant", aiReply[r]) =>
            /\ i > 1
            /\ Log(ConvOf(r))[i - 1] = Msg("user", req[r].message)

(* ------------------------------- C4 ----------------------------------- *)
\* C4: after N appends on an id with no clear in between (N = 0: an id never
\* written), readAll returns exactly those N messages, role and content as
\* given, in call order: what GetHistory returns, and what Chat reads as its
\* history, is the sequence of the appends made since the last clear.
C4_ReadAllReturnsAppends ==
  \A r \in Reqs :
    /\ (IsGetHistory(req[r]) /\ pc[r] = "done" /\ error[r] = "none"
          /\ LastRequest(r)) =>
         response[r] = HistoryResponse(appended[ConvOf(r)])
    /\ pc[r] = "add_user_get" => messages[r] = appended[ConvOf(r)]

\* GetHistory returned four messages: the two of the earlier exchange and
\* the two a Chat request of this run appended
C4_Witness ==
  \E r \in Reqs :
    /\ IsGetHistory(req[r]) /\ pc[r] = "done" /\ LastRequest(r)
    /\ response[r].type = "messages"
    /\ Len(response[r].messages) = 4
    /\ response[r].messages[3].role = "user"
    /\ response[r].messages[4].role = "assistant"

(* ------------------------------- C5 ----------------------------------- *)
\* C5: clear(id) followed immediately by readAll(id) returns the empty
\* sequence whatever the prior content, and ClearHistory followed
\* immediately by GetHistory on the same id returns {messages: []}.
C5_ClearThenReadEmpty ==
  /\ \A n \in Names : lastOp[n] = "clear" => Log(n) = <<>>
  /\ \A r \in Reqs :
       ( /\ r > 1
         /\ IsClearHistory(req[r - 1]) /\ response[r - 1] = SuccessResponse
         /\ IsGetHistory(req[r]) /\ pc[r] = "done" /\ error[r] = "none"
         /\ ConvOf(r) = ConvOf(r - 1) ) =>
         response[r] = HistoryResponse(<<>>)

\* ClearHistory on the conversation that held messages, then GetHistory on it
C5_Witness ==
  \E r \in Reqs :
    /\ r = 2
    /\ IsClearHistory(req[1]) /\ response[1] = SuccessResponse
    /\ ConvOf(1) = "default" /\ ConvOf(r) = "default"
    /\ IsGetHistory(req[r]) /\ pc[r] = "done"
    /\ response[r].type = "messages"

(* ------------------------------- C6 ----------------------------------- *)
\* C6: the prompt handed to the gateway has len(history) + 2 messages: the
\* system message with the persona text, then the history as read, in
\* order, then one user message whose content is the new text.
C6_PromptShape ==
  \A r \in Reqs :
    pc[r] \in {"ai_run", "add_asst_get", "add_asst_push", "add_asst_put"} =>
      /\ Len(aiMessages[r]) = Len(messages[r]) + 2
      /\ aiMessages[r][1] = Msg("system", SystemPrompt)
      /\ \A i \in 1..Len(messages[r]) : aiMessages[r][i + 1] = messages[r][i]
      /\ aiMessages[r][Len(aiMessages[r])] = Msg("user", req[r].message)

\* a prompt built over a non-empty history is at the gateway
C6_Witness ==
  \E r \in Reqs :
    /\ pc[r] = "ai_run"
    /\ Len(messages[r]) = 2
    /\ Len(aiMessages[r]) = 4

(* ------------------------------- C7 ----------------------------------- *)
\* C7: in every Chat request the steps occur in the order readAll, prompt
\* build, gateway run, append user, append assistant: no append is issued
\* before the gateway call has returned a reply.
C7_AppendsAfterGateway ==
  \A r \in Reqs : AppendIssued(r) => aiReply[r] \in Replies

(* ------------------------------- C8 ----------------------------------- *)
\* C8: a Chat request whose body is malformed or whose message is missing
\* or empty is rejected with an error envelope before any call to the store
\* or the gateway is made.
C8_BadInputRejected ==
  \A r \in Reqs :
    (IsChat(req[r]) /\ (~req[r].bodyOk \/ req[r].message \in {Undefined, ""})) =>
      /\ pc[r] \in {"idle", "chat_json", "done"}
      /\ pc[r] = "done" => IsErrorEnvelope(response[r])
      /\ error[r] \in {"none", "body"}

(* ------------------------------- C9 ----------------------------------- *)
\* C9: when a store read or write fails, Chat, GetHistory and ClearHistory
\* each answer with an error envelope and a non-success status.
C9_StoreFailureSurfaced ==
  \A r \in Reqs :
    (pc[r] = "done" /\ error[r] = "store") => IsErrorEnvelope(response[r])

(* ------------------------------- C10 ---------------------------------- *)
\* C10: a Chat request with message m on a history of k messages, with a
\* gateway reply r and nothing else in between, ends with the log holding
\* those k messages, then the user turn m, then the assistant turn r (k + 2
\* messages), and the response carries r; the prompt had k + 2 messages
\* (2 for k = 0).
C10_ChatAppendsPair ==
  \A r \in Reqs :
    ( /\ IsChat(req[r]) /\ pc[r] = "done" /\ error[r] = "none"
      /\ aiReply[r] \in Replies
      /\ LastRequest(r) ) =>
      /\ Log(ConvOf(r)) =
           messages[r] \o <<Msg("user", req[r].message),
                            Msg("assistant", aiReply[r])>>
      /\ Len(Log(ConvOf(r))) = Len(messages[r]) + 2
      /\ response[r].type = "reply" /\ response[r].status = 200
      /\ response[r].response = aiReply[r]
      /\ Len(aiMessages[r]) = Len(messages[r]) + 2
      /\ r = 1 => messages[r] = OrEmpty(InitialStorage[ConvOf(r)])

\* a Chat on the empty conversation ended with exactly two messages stored
C10_Witness ==
  \E r \in Reqs :
    /\ IsChat(req[r]) /\ pc[r] = "done" /\ response[r].type = "reply"
    /\ req[r].message \in Texts /\ aiReply[r] \in Replies
    /\ LastRequest(r)
    /\ messages[r] = <<>>
    /\ Len(aiMessages[r]) = 2
    /\ Len(Log(ConvOf(r))) = 2

(* ------------------------------- C11 ---------------------------------- *)
\* C11: in Chat, GetHistory and ClearHistory an absent conversation id
\* resolves to the non-empty key "default": no request addresses the store
\* with an empty id, a Chat without conversationId reports conversationId
\* "default", and a GetHistory with id = "default" right after it returns
\* the turns that Chat wrote.
C11_AbsentIdIsDefault ==
  /\ \A r \in Reqs :
       pc[r] # "idle" =>
         /\ ResolveId(req[r].conversationId) # ""
         /\ ResolveId(req[r].conversationId) \in Names
         /\ req[r].conversationId \in {Undefined, ""} =>
              ResolveId(req[r].conversationId) = "default"
  /\ \A r \in Reqs :
       (IsChat(req[r]) /\ req[r].conversationId = Undefined
          /\ response[r].type = "reply") =>
         response[r].conversationId = "default"
  /\ \A r \in Reqs :
       ( /\ r > 1
         /\ IsChat(req[r - 1]) /\ req[r - 1].conversationId = Undefined
         /\ response[r - 1].type = "reply"
         /\ IsGetHistory(req[r]) /\ req[r].conversationId = "default"
         /\ pc[r] = "done" /\ error[r] = "none" ) =>
         /\ response[r].type = "messages"
         /\ Len(response[r].messages) >= 2
         /\ response[r].messages[Len(response[r].messages) - 1] =
              Msg("user", req[r - 1].message)
         /\ response[r].messages[Len(response[r].messages)] =
              Msg("assistant", aiReply[r - 1])

\* a Chat without conversationId, then GetHistory with id = "default"
\* showing the two new turns after the two older ones
C11_Witness ==
  /\ NumReqs >= 2
  /\ IsChat(req[1]) /\ req[1].conversationId = Undefined
  /\ req[1].message \in Texts /\ aiReply[1] \in Replies
  /\ response[1].type = "reply" /\ response[1].conversationId = "default"
  /\ IsGetHistory(req[2]) /\ req[2].conversationId = "default"
  /\ pc[2] = "done" /\ response[2].type = "messages"
  /\ Len(response[2].messages) = 4

(* ------------------------------- C12 ---------------------------------- *)
\* C12: GetHistory and readAll never mutate: the step in which GET /history
\* is served (for GetHistory or for the history read of Chat) leaves the
\* stored sequence of every conversation as it was, and it returns the full
\* sequence of the requested id in order.
C12_ReadNeverMutates ==
  [][\A r \in Reqs :
       (pc[r] \in {"history_get", "chat_history"} /\ pc'[r] # pc[r]
          /\ error'[r] = "none") =>
         /\ storage' = storage
         /\ appended' = appended
         /\ pc[r] = "history_get" =>
              response'[r] = HistoryResponse(appended[ResolveId(req[r].conversationId)])
         /\ pc[r] = "chat_history" =>
              messages'[r] = appended[ResolveId(req[r].conversationId)]]_vars

\* GetHistory has returned a non-empty sequence and the store still holds it
C12_Witness ==
  \E r \in Reqs :
    /\ IsGetHistory(req[r]) /\ pc[r] = "done" /\ response[r].type = "messages"
    /\ Len(response[r].messages) >= 2
    /\ storage[ConvOf(r)] = Stored(response[r].messages)

(* ------------------------------- C13 ---------------------------------- *)
\* C13: operations on one conversation id leave every other id's log
\* unchanged: a step of a request on id X (its Chat, GetHistory or
\* ClearHistory, and the append, readAll or clear it makes) changes the
\* stored sequence of no id Y # X, under any interleaving.
C13_OtherIdsUntouched ==
  [][\A r \in Reqs :
       pc'[r] # pc[r] =>
         \A n \in Names \ {ResolveId(req'[r].conversationId)} :
           storage'[n] = storage[n]]_vars

\* two requests in flight on different ids have both appended their user turn
C13_Witness ==
  \E r \in Reqs, o \in Reqs :
    /\ ResolveId(req[r].conversationId) = "default"
    /\ ResolveId(req[o].conversationId) = "c1"
    /\ pc[r] = "ai_run" /\ pc[o] = "ai_run"
    /\ Len(Log("default")) = 3
    /\ Len(Log("c1")) = 1

(* ------------------------------- C14 ---------------------------------- *)
\* C14: the log of every id is append-only between clears: every step
\* leaves it unchanged, or extends it at its end with the existing prefix
\* untouched, or - only in the step that serves a clear of that id -
\* empties it; no stored message is modified, reordered or removed alone.
C14_AppendOnly ==
  [][\A n \in Names :
       \/ OrEmpty(storage'[n]) = OrEmpty(storage[n])
       \/ /\ Len(OrEmpty(storage'[n])) > Len(OrEmpty(storage[n]))
          /\ SubSeq(OrEmpty(storage'[n]), 1, Len(OrEmpty(storage[n])))
               = OrEmpty(storage[n])
       \/ /\ OrEmpty(storage'[n]) = <<>>
          /\ \E r \in Reqs :
               /\ pc[r] = "clear_delete" /\ pc'[r] = "done"
               /\ ResolveId(req[r].conversationId) = n]_vars

\* a finished Chat has extended the log twice over what it held
C14_Witness ==
  /\ Len(Log("default")) = 4
  /\ SubSeq(Log("default"), 1, 2) = OrEmpty(InitialStorage["default"])
  /\ \E r \in Reqs : IsChat(req[r]) /\ pc[r] = "done" /\ ConvOf(r) = "default"

(* ------------------------------- C15 ---------------------------------- *)
\* C15: if a Chat request is cancelled at any suspension point, no partial
\* history mutation is left: the log of its id is unchanged from before the
\* request or extended by the complete user-then-assistant pair, never by
\* the user turn alone (stated for the first request of a run, whose log
\* before the request is the initial one).
C15_CancelLeavesNoPartial ==
  \A r \in Reqs :
    ( /\ r = 1 /\ LastRequest(r)
      /\ IsChat(req[r]) /\ pc[r] = "done" /\ error[r] = "cancel" ) =>
      \/ Log(ConvOf(r)) = OrEmpty(InitialStorage[ConvOf(r)])
      \/ Log(ConvOf(r)) =
           OrEmpty(InitialStorage[ConvOf(r)])
             \o <<Msg("user", req[r].message), Msg("assistant", aiReply[r])>>

(* ------------------------------- C16 ---------------------------------- *)
\* C16: history is durable: after every step the storage of each id holds
\* the messages of all the appends that have returned, a restart of the store object (this.messages reset to
\* empty) leaves storage as it was, and the first readAll after a restart
\* returns the messages of all the appends that returned.
C16_Durable ==
  [][/\ \A n \in Names : OrEmpty(storage'[n]) = appended'[n]
     /\ \A n \in Names :
          (lastOp'[n] = "restart" /\ lastOp[n] # "restart") =>
            storage' = storage
     /\ \A r \in Reqs :
          ( /\ pc[r] \in {"history_get", "chat_history"} /\ pc'[r] # pc[r]
            /\ error'[r] = "none"
            /\ lastOp[ResolveId(req[r].conversationId)] = "restart" ) =>
            /\ pc[r] = "history_get" =>
                 response'[r] =
                   HistoryResponse(appended[ResolveId(req[r].conversationId)])
            /\ pc[r] = "chat_history" =>
                 messages'[r] = appended[ResolveId(req[r].conversationId)]]_vars

\* an object was restarted after a Chat of this run stored its two turns
C16_Witness ==
  \E n \in Names :
    /\ lastOp[n] = "restart"
    /\ doMessages[n] = <<>>
    /\ Len(appended[n]) = Len(OrEmpty(InitialStorage[n])) + 2
    /\ \E r \in Reqs :
         IsChat(req[r]) /\ ConvOf(r) = n /\ response[r].type = "reply"

(* ------------------------------- C17 ---------------------------------- *)
\* C17: every Chat request ends with exactly one response; whenever a step
\* of it fails (body parsing, store read, gateway call, either append) that
\* response is an error payload with a non-success status, not a success
\* payload; and, every store and gateway call settling, the response is
\* eventually sent.
C17_OneResponse ==
  /\ [][\A r \in Reqs :
          response[r] # NoResponse => response'[r] = response[r]]_vars
  /\ [](\A r \in Reqs :
          /\ pc[r] # "done" => response[r] = NoResponse
          /\ (pc[r] = "done" /\ IsChat(req[r])) =>
               /\ response[r].type \in {"reply", "error"}
               /\ error[r] # "none" => IsErrorEnvelope(response[r])
               /\ error[r] = "none" => response[r].type = "reply")
  /\ \A r \in Reqs : (pc[r] # "idle") ~> (pc[r] = "done")

\* a Chat request in which a call failed has been answered
C17_Witness ==
  \E r \in Reqs :
    /\ IsChat(req[r]) /\ pc[r] = "done"
    /\ error[r] \in {"store", "gateway"}
    /\ response[r].type = "error"

(* ------------------------------- C18 ---------------------------------- *)
\* C18: when the gateway call returns without a usable reply text, Chat
\* treats it as a gateway failure: it responds with an error envelope and a
\* failure status, not with a success payload.
C18_MalformedReplyIsFailure ==
  \A r \in Reqs :
    ( /\ IsChat(req[r]) /\ pc[r] = "done"
      /\ aiMessages[r] # <<>>
      /\ aiReply[r] = Undefined
      /\ error[r] # "gateway" ) =>
      IsErrorEnvelope(response[r])

(* ------------------------------- C19 ---------------------------------- *)
\* C19: a request whose (method, path) is not Chat, GetHistory, ClearHistory
\* or the pre-flight probe yields a not-found response (status 404) with a
\* short static body, the root path alone being allowed the static banner;
\* it touches neither the store nor the gateway.
C19_UnroutedIsNotFound ==
  \A r \in Reqs :
    (pc[r] # "idle" /\ <<req[r].method, req[r].path>> \in Unrouted) =>
      /\ pc[r] = "done"
      /\ \/ response[r].status = 404
         \/ req[r].path = "/" /\ response[r].type = "banner"

(* ------------------------------- C20 ---------------------------------- *)
\* C20: a request with the pre-flight method OPTIONS, on any path, is
\* answered in the dispatch step itself, before any route is tried: it gets
\* the CORS response, makes no call to the store or the gateway, and leaves
\* the store unchanged.
C20_PreflightShortCircuits ==
  [][\A r \in Reqs :
       (pc[r] = "idle" /\ pc'[r] # "idle" /\ req'[r].method = "OPTIONS") =>
         /\ pc'[r] = "done"
         /\ response'[r] = CorsResponse
         /\ storage' = storage
         /\ doMessages' = doMessages
         /\ faults' = faults]_vars

\* OPTIONS on a routed path was answered while the store holds messages
C20_Witness ==
  \E r \in Reqs :
    /\ req[r].method = "OPTIONS" /\ req[r].path = "/api/clear"
    /\ pc[r] = "done" /\ response[r] = CorsResponse
    /\ Len(Log("default")) >= 2

(* ------------------------------- C21 ---------------------------------- *)
\* C21: when a ClearHistory runs concurrently with an in-flight Chat on the
\* same id, then once both have completed the log of that id is empty or
\* holds the complete user-then-assistant pair of that Chat; it never holds
\* the assistant turn without the user turn.
C21_ClearDuringChat ==
  \A r \in Reqs, o \in Reqs :
    ( /\ IsChat(req[r]) /\ pc[r] = "done" /\ response[r].type = "reply"
      /\ IsClearHistory(req[o]) /\ pc[o] = "done"
      /\ response[o] = SuccessResponse
      /\ ConvOf(r) = ConvOf(o)
      /\ \A x \in Reqs \ {r, o} : pc[x] = "idle" ) =>
      \/ Log(ConvOf(r)) = <<>>
      \/ Log(ConvOf(r)) =
           <<Msg("user", req[r].message), Msg("assistant", aiReply[r])>>

(* ------------------------------- C22 ---------------------------------- *)
\* C22: in the chat page at most one Chat request is in flight at a time:
\* sendMessage does nothing while loading is true or the trimmed input is
\* empty; loading is true exactly from the moment a request is sent until
\* it settles, and is false again after every request, succeeded or failed;
\* each send adds exactly one user message to the displayed list and its
\* settling adds exactly one assistant message.
C22_OneChatInFlight ==
  [][/\ uiPending' <= 1
     /\ uiLoading' = (uiPending' = 1)
     /\ (uiLoading \/ Trim(uiInput) = <<>>) =>
          (uiSent' = uiSent /\ uiPending' <= uiPending)
     /\ uiSent' # uiSent =>
          /\ uiSent' = uiSent + 1 /\ uiPending' = uiPending + 1
          /\ uiLoading'
          /\ uiMessages' = Append(uiMessages, Msg("user", Trim(uiInput)))
          /\ Trim(uiInput) # <<>>
          /\ \A i \in 1..Len(Trim(uiInput)) :
               i \in {1, Len(Trim(uiInput))} => Trim(uiInput)[i] # " "
     /\ uiPending' < uiPending =>
          /\ ~uiLoading'
          /\ Len(uiMessages') = Len(uiMessages) + 1
          /\ SubSeq(uiMessages', 1, Len(uiMessages)) = uiMessages
          /\ uiMessages'[Len(uiMessages')].role = "assistant"]_vars

\* two sends have settled, one with a reply and one with the error text,
\* and loading is false again
C22_Witness ==
  /\ uiSent = 2 /\ uiPending = 0 /\ ~uiLoading
  /\ Len(uiMessages) = 4
  /\ uiMessages[1] = Msg("user", <<"a">>)
  /\ uiMessages[2].role = "assistant"
  /\ uiMessages[3].role = "user"
  /\ uiMessages[4] = Msg("assistant", UiErrorText)

====
